---- MODULE Spec2Model ----
(***************************************************************************)
(* A model of drone_sync_beta.py: the sidecar parser, the frame aligner,   *)
(* and main() as a step machine whose steps are its calls into the host    *)
(* sink (DaVinci Resolve's project, media pool and timelines).             *)
(*                                                                         *)
(* Text is modelled as tuples of one-character strings.  Python floats are *)
(* IEEE-754 doubles: they are modelled exactly, as a 53-bit significand    *)
(* (a natural number kept in 15-bit limbs, little-endian) and an exponent, *)
(* with round-to-nearest-even after every operation.                       *)
(***************************************************************************)
EXTENDS Integers, Sequences, FiniteSets, TLC

VARIABLES pc, args, host, chosen_cams, export_created, files, calls, log,
          camIdx, groups, groupIdx, itemIdx, imported_items, clip_infos,
          all_timelines, exportIdx, failures, fn_in, fn_out

vars == <<pc, args, host, chosen_cams, export_created, files, calls, log,
          camIdx, groups, groupIdx, itemIdx, imported_items, clip_infos,
          all_timelines, exportIdx, failures, fn_in, fn_out>>

\* Python's None, and a value that may be None: the empty tuple, or <<x>>
None == <<>>

Some(x) == <<x>>

(***************************************************************************)
(* Natural numbers of any size, and doubles.                               *)
(***************************************************************************)
\* One limb of a natural number holds 15 bits, so that a product of two
\* limbs stays inside the integers of the model checker.
Base == 2^15

RECURSIVE NTrim(_)
NTrim(a) == IF a = <<>> THEN <<>>
            ELSE IF a[Len(a)] = 0 THEN NTrim(SubSeq(a, 1, Len(a) - 1)) ELSE a

RECURSIVE NFromInt(_)
NFromInt(n) == IF n = 0 THEN <<>> ELSE <<n % Base>> \o NFromInt(n \div Base)

RECURSIVE NToInt(_)
NToInt(a) == IF a = <<>> THEN 0 ELSE a[1] + Base * NToInt(Tail(a))

Limb(a, i) == IF i <= Len(a) THEN a[i] ELSE 0

\* -1, 0 or 1 as a < b, a = b or a > b, comparing from limb i down
RECURSIVE NCmpFrom(_, _, _)
NCmpFrom(a, b, i) == IF i = 0 THEN 0
                     ELSE IF Limb(a, i) > Limb(b, i) THEN 1
                     ELSE IF Limb(a, i) < Limb(b, i) THEN -1
                     ELSE NCmpFrom(a, b, i - 1)

NCmp(a, b) == NCmpFrom(a, b, IF Len(a) > Len(b) THEN Len(a) ELSE Len(b))

\* the limbs of a number from the value s that one position holds
RECURSIVE NCarry(_, _, _, _, _)
NCarry(a, b, k, i, s) ==
    IF i > Len(a) + 1 /\ i > Len(b) + 1 /\ s = 0 THEN <<>>
    ELSE <<s % Base>> \o NCarry(a, b, k, i + 1,
                                Limb(a, i) * k + Limb(b, i) + s \div Base)

\* a * k + b for a small k
NMulAdd(a, k, b) == NTrim(NCarry(a, b, k, 2, Limb(a, 1) * k + Limb(b, 1)))

NAdd(a, b) == NMulAdd(a, 1, b)

NMulSmall(a, k) == NMulAdd(a, k, <<>>)

RECURSIVE NBorrow(_, _, _, _)
NBorrow(a, b, i, s) ==
    IF i > Len(a) + 1 THEN <<>>
    ELSE <<s % Base>> \o NBorrow(a, b, i + 1,
                                 Limb(a, i) - Limb(b, i) - (IF s < 0 THEN 1 ELSE 0))

\* a - b for a >= b
NSub(a, b) == NTrim(NBorrow(a, b, 2, Limb(a, 1) - Limb(b, 1)))

Zeros(n) == [i \in 1..n |-> 0]

RECURSIVE NMulFrom(_, _, _)
NMulFrom(a, b, j) ==
    IF j > Len(b) THEN <<>>
    ELSE NAdd(NTrim(Zeros(j - 1) \o NMulSmall(a, b[j])), NMulFrom(a, b, j + 1))

NMul(a, b) == NMulFrom(a, b, 1)

\* the quotient limbs of a by a small k from limb i down, r the remainder so far
RECURSIVE NDivSmallFrom(_, _, _, _)
NDivSmallFrom(a, k, i, r) ==
    IF i = 0 THEN <<>>
    ELSE Append(NDivSmallFrom(a, k, i - 1, (r * Base + a[i]) % k),
                (r * Base + a[i]) \div k)

NDivSmall(a, k) == NTrim(NDivSmallFrom(a, k, Len(a), 0))

\* a * 2^n
NShl(a, n) == IF a = <<>> THEN <<>>
              ELSE Zeros(n \div 15) \o NMulSmall(a, 2^(n % 15))

\* a \div 2^n
NShr(a, n) == IF n \div 15 >= Len(a) THEN <<>>
              ELSE NDivSmall(SubSeq(a, n \div 15 + 1, Len(a)), 2^(n % 15))

RECURSIVE BitLenInt(_)
BitLenInt(n) == IF n = 0 THEN 0 ELSE 1 + BitLenInt(n \div 2)

NBitLen(a) == IF a = <<>> THEN 0 ELSE 15 * (Len(a) - 1) + BitLenInt(a[Len(a)])

NBit(a, i) == (Limb(a, i \div 15 + 1) \div 2^(i % 15)) % 2

NOdd(a) == a # <<>> /\ a[1] % 2 = 1

\* long division, one bit of a at a time from bit i down to bit lo; q and r
\* are the quotient and the remainder of the bits above
RECURSIVE NDivModFrom(_, _, _, _, _, _)
RECURSIVE NDivStep(_, _, _, _, _, _)
NDivStep(a, b, i, lo, q, r2) ==
    IF NCmp(r2, b) >= 0
    THEN NDivModFrom(a, b, i - 1, lo, NMulAdd(q, 2, <<1>>), NSub(r2, b))
    ELSE NDivModFrom(a, b, i - 1, lo, NMulSmall(q, 2), r2)

NDivModFrom(a, b, i, lo, q, r) ==
    IF i < lo \/ Len(q) < 0 THEN [q |-> q, r |-> r]
    ELSE NDivStep(a, b, i, lo, q, NMulAdd(r, 2, NFromInt(NBit(a, i))))

NDivStage(a, b, hi, lo, s) == NDivModFrom(a, b, hi, lo, s.q, s.r)

\* the bits of the quotient below bit k, in four stages
NDivModBelow(a, b, k) ==
    NDivStage(a, b, k \div 4 - 1, 0,
      NDivStage(a, b, k \div 2 - 1, k \div 4,
        NDivStage(a, b, (3 * k) \div 4 - 1, k \div 2,
          NDivStage(a, b, k - 1, (3 * k) \div 4, [q |-> <<>>, r |-> NShr(a, k)]))))

\* [q |-> a \div b, r |-> a % b]
NDivMod(a, b) ==
    NDivModBelow(a, b, IF NBitLen(a) >= NBitLen(b)
                       THEN NBitLen(a) - NBitLen(b) + 1 ELSE 0)

\* A double is [m |-> significand, e |-> exponent]: m * 2^e with m of exactly
\* 53 bits, or m = <<>> for 0.0.
Renorm(q, e) == IF NBitLen(q) = 54 THEN [m |-> NShr(q, 1), e |-> e + 1]
                ELSE [m |-> q, e |-> e]

\* q rounded up or not: c compares the bits dropped with half a unit of q
RoundUp(q, e, c, sticky) ==
    Renorm(IF c = 1 \/ (c = 0 /\ (sticky \/ NOdd(q))) THEN NAdd(q, <<1>>) ELSE q, e)

RoundDrop(n, e, sticky, d, q) ==
    RoundUp(q, e + d, NCmp(NSub(n, NShl(q, d)), NShl(<<1>>, d - 1)), sticky)

RoundBits(n, e, sticky, L) ==
    IF L <= 53 THEN [m |-> NShl(n, 53 - L), e |-> e - (53 - L)]
    ELSE RoundDrop(n, e, sticky, L - 53, NShr(n, L - 53))

\* the double nearest to n * 2^e (ties to even); sticky: the exact value is a
\* little above n * 2^e, by less than one unit of n
RoundToDouble(n, e, sticky) ==
    IF n = <<>> THEN [m |-> <<>>, e |-> 0] ELSE RoundBits(n, e, sticky, NBitLen(n))

\* float(n)
FFromNat(n) == RoundToDouble(n, 0, FALSE)

FDivRounded(qr, e) == RoundToDouble(qr.q, e, qr.r # <<>>)

\* a / b
FDiv(a, b) == IF a.m = <<>> THEN a
              ELSE FDivRounded(NDivMod(NShl(a.m, 56), b.m), a.e - 56 - b.e)

\* a * b
FMul(a, b) == RoundToDouble(NMul(a.m, b.m), a.e + b.e, FALSE)

\* int(x) for x >= 0
FTrunc(x) == IF x.e >= 0 THEN NToInt(NShl(x.m, x.e)) ELSE NToInt(NShr(x.m, -x.e))

FRoundUp(q, c) == NToInt(IF c = 1 \/ (c = 0 /\ NOdd(q)) THEN NAdd(q, <<1>>) ELSE q)

FRoundDrop(m, d, q) == FRoundUp(q, NCmp(NSub(m, NShl(q, d)), NShl(<<1>>, d - 1)))

\* round(x) for x >= 0: to the nearest integer, a half to the even one
FRound(x) == IF x.e >= 0 THEN NToInt(NShl(x.m, x.e))
             ELSE FRoundDrop(x.m, -x.e, NShr(x.m, -x.e))

(***************************************************************************)
(* Text: digits, decimal conversion, ordering of strings.                  *)
(***************************************************************************)
DigitChars == <<"0", "1", "2", "3", "4", "5", "6", "7", "8", "9">>

IsDigit(c) == \E d \in 1..10 : DigitChars[d] = c

DigitVal(c) == (CHOOSE d \in 1..10 : DigitChars[d] = c) - 1

\* int(s) for a string of digits
RECURSIVE ParseInt(_)
ParseInt(s) == IF s = <<>> THEN 0
               ELSE 10 * ParseInt(SubSeq(s, 1, Len(s) - 1)) + DigitVal(s[Len(s)])

\* str(n) for n >= 0
RECURSIVE IntToChars(_)
IntToChars(n) == IF n < 10 THEN <<DigitChars[n + 1]>>
                 ELSE IntToChars(n \div 10) \o <<DigitChars[(n % 10) + 1]>>

\* a two-digit field of strftime: %y, %m, %d
Pad2(n) == <<DigitChars[((n \div 10) % 10) + 1], DigitChars[(n % 10) + 1]>>

\* the code point of a character of a day key
Ord(c) == IF c = "-" THEN 45 ELSE 48 + DigitVal(c)

\* s < t as Python compares strings
RECURSIVE StrLess(_, _)
StrLess(s, t) == IF t = <<>> THEN FALSE
                 ELSE IF s = <<>> THEN TRUE
                 ELSE IF s[1] # t[1] THEN Ord(s[1]) < Ord(t[1])
                 ELSE StrLess(Tail(s), Tail(t))

(***************************************************************************)
(* Sidecar parser.  A sidecar text is modelled by what the three regular   *)
(* expressions find in it: stamp, the fields of the first match of         *)
(* \d{4}-\d{2}-\d{2} \d{2}:\d{2}:\d{2}\.\d{3} (or None); diff, the values  *)
(* of the DiffTime markers in order; framecnt, those of the FrameCnt       *)
(* markers.  stamp is None or <<fields>>.                                  *)
(***************************************************************************)
IsLeap(y) == (y % 4 = 0 /\ y % 100 # 0) \/ y % 400 = 0

DaysInMonth(y, m) == IF m = 2 THEN (IF IsLeap(y) THEN 29 ELSE 28)
                     ELSE IF m \in {4, 6, 9, 11} THEN 30 ELSE 31

\* whether datetime.strptime(..., "%Y-%m-%d %H:%M:%S.%f") accepts the fields
StrptimeAccepts(f) ==
    /\ f.Y \in 1..9999
    /\ f.M \in 1..12
    /\ f.D \in 1..DaysInMonth(f.Y, f.M)
    /\ f.h \in 0..23
    /\ f.mi \in 0..59
    /\ f.s \in 0..59

\* the result of parse_srt_for_timestamp: None, a datetime, or an exception
parse_srt_for_timestamp(content) ==
    IF content.stamp = None THEN [kind |-> "none"]
    ELSE IF StrptimeAccepts(content.stamp[1])
         THEN [kind |-> "ts", ts |-> content.stamp[1]]
         ELSE [kind |-> "raise"]

RECURSIVE SumSeq(_)
SumSeq(s) == IF s = <<>> THEN 0 ELSE s[1] + SumSeq(Tail(s))

\* 1000.0 / fps
frame_ms(fps) == FDiv(FFromNat(NFromInt(1000)), FFromNat(NFromInt(fps)))

get_clip_duration_frames(content, fps) ==
    IF content.diff # <<>>
    THEN Some(FTrunc(FDiv(FFromNat(NFromInt(SumSeq(content.diff))), frame_ms(fps))))
    ELSE IF content.framecnt # <<>> THEN Some(Len(content.framecnt))
    ELSE None

(***************************************************************************)
(* Frame aligner.                                                          *)
(***************************************************************************)
\* ts - day_start, in milliseconds (the sidecar carries three digits)
MsOfDay(ts) == ((ts.h * 60 + ts.mi) * 60 + ts.s) * 1000 + ts.ms

\* timedelta.total_seconds(): microseconds / 10**6, correctly rounded
total_seconds(ts) ==
    FDiv(FFromNat(NMulSmall(NFromInt(MsOfDay(ts)), 1000)),
         FFromNat(NFromInt(1000000)))

compute_record_frame(ts, fps) ==
    FRound(FMul(total_seconds(ts), FFromNat(NFromInt(fps))))

\* ts.strftime('%y-%m-%d')
realdate(ts) == Pad2(ts.Y % 100) \o <<"-">> \o Pad2(ts.M) \o <<"-">> \o Pad2(ts.D)

(***************************************************************************)
(* Resolution reconciliation and the placement plan of one day group.      *)
(***************************************************************************)
\* the number of digits of s from position i on
RECURSIVE DigitRun(_, _)
DigitRun(s, i) == IF i > Len(s) \/ ~IsDigit(s[i]) THEN 0 ELSE 1 + DigitRun(s, i + 1)

\* whether (\d{3,5})x(\d{3,5}) matches s at position i: greedy, so the first
\* group is the whole run of digits before the x
MatchesWith(s, i, n) ==
    /\ n \in 3..5
    /\ i + n <= Len(s)
    /\ s[i + n] = "x"
    /\ DigitRun(s, i + n + 1) >= 3

MatchesAt(s, i) == MatchesWith(s, i, DigitRun(s, i))

\* the groups of the match at position i: n digits, an x, up to five digits
MatchGroups(s, i, n, r) ==
    <<ParseInt(SubSeq(s, i, i + n - 1)),
      ParseInt(SubSeq(s, i + n + 1, i + n + (IF r > 5 THEN 5 ELSE r)))>>

MatchAt(s, i, n) == MatchGroups(s, i, n, DigitRun(s, i + n + 1))

\* the leftmost match at position i or later
RECURSIVE SearchFrom(_, _)
SearchFrom(s, i) == IF i > Len(s) THEN None
                    ELSE IF MatchesAt(s, i) THEN MatchAt(s, i, DigitRun(s, i))
                    ELSE SearchFrom(s, i + 1)

\* re.search(r"(\d{3,5})x(\d{3,5})", s): None, or <<int(group 1), int(group 2)>>
ParseResolution(s) == SearchFrom(s, 1)

\* what lines 262-276 parse from item.GetClipProperty('Resolution'); the
\* property is a string ("str"), a dict holding a string under 'Resolution'
\* ("dict"), anything else ("other"), or the call raises ("raise")
ClipResolution(res) ==
    IF res.kind = "str" THEN ParseResolution(res.s)
    ELSE IF res.kind = "dict" THEN ParseResolution(res.s)
    ELSE None

\* a variant that keeps the last of two resolutions of equal product
larger_or_equal_resolution(best, wh) ==
    IF wh # None /\ wh[1] * wh[2] >= best[1] * best[2] THEN wh ELSE best

\* lines 265-268: the larger of the best so far and wh, the first on a tie
larger_resolution(best, wh) ==
    IF wh # None /\ wh[1] * wh[2] > best[1] * best[2] THEN wh ELSE best

\* the loop of lines 258-278 over the imported items, from (0, 0)
RECURSIVE max_resolution(_, _)
max_resolution(items, best) ==
    IF items = <<>> THEN best
    ELSE max_resolution(Tail(items),
                        larger_resolution(best, ClipResolution(items[1].res)))

\* lines 281-288: the entry, with a trim window when there is a duration
placement_entry(item, record_frame, duration) ==
    IF duration # None
    THEN [mediaPoolItem |-> item, trackIndex |-> 1, recordFrame |-> record_frame,
          startFrame |-> 0, endFrame |-> duration[1]]
    ELSE [mediaPoolItem |-> item, trackIndex |-> 1, recordFrame |-> record_frame]

\* list.sort(key=lambda x: x['recordFrame']): a stable sort
RECURSIVE InsertAfterEqual(_, _)
InsertAfterEqual(sorted, x) ==
    IF sorted = <<>> THEN <<x>>
    ELSE IF sorted[Len(sorted)].recordFrame <= x.recordFrame THEN Append(sorted, x)
    ELSE Append(InsertAfterEqual(SubSeq(sorted, 1, Len(sorted) - 1), x),
                sorted[Len(sorted)])

RECURSIVE InsertBeforeEqual(_, _)
InsertBeforeEqual(sorted, x) ==
    IF sorted = <<>> THEN <<x>>
    ELSE IF sorted[Len(sorted)].recordFrame < x.recordFrame THEN Append(sorted, x)
    ELSE Append(InsertBeforeEqual(SubSeq(sorted, 1, Len(sorted) - 1), x),
                sorted[Len(sorted)])

RECURSIVE SortFrom(_, _)
SortFrom(done, rest) ==
    IF rest = <<>> THEN done
    ELSE SortFrom(InsertAfterEqual(done, rest[1]), Tail(rest))

RECURSIVE UnstableSortFrom(_, _)
UnstableSortFrom(done, rest) ==
    IF rest = <<>> THEN done
    ELSE UnstableSortFrom(InsertBeforeEqual(done, rest[1]), Tail(rest))

\* a sort that orders by recordFrame but reverses the entries of equal key
sort_unstable(infos) == UnstableSortFrom(<<>>, infos)

sort_by_record_frame(infos) == SortFrom(<<>>, infos)

\* safe_filename: each of \ / : * ? " < > | becomes _
safe_filename(name) ==
    [i \in 1..Len(name) |->
        IF name[i] \in {"\\", "/", ":", "*", "?", "\"", "<", ">", "|"}
        THEN "_" ELSE name[i]]

(***************************************************************************)
(* Inputs: the command line, the folders on disk, the host project.        *)
(***************************************************************************)
\* the most video files under the chosen camera folders together
MaxClips == 3

\* the most host-sink calls of one run that return a failure
MaxFailures == 1

Stamp(Y, M, D, h, mi, s, ms) ==
    [Y |-> Y, M |-> M, D |-> D, h |-> h, mi |-> mi, s |-> s, ms |-> ms]

Sidecar(stamp, diff, framecnt) ==
    [stamp |-> stamp, diff |-> diff, framecnt |-> framecnt]

ResStr(s) == [kind |-> "str", s |-> s]

ResDict(s) == [kind |-> "dict", s |-> s]

\* a video file: its sidecar as find_srt_for_video finds it (None, or its
\* text) and the 'Resolution' property the host reports once it is imported
Video(srt, res) == [srt |-> srt, res |-> res]

Res1920x1080 == <<"1", "9", "2", "0", "x", "1", "0", "8", "0">>

Res3840x2160 == <<"3", "8", "4", "0", "x", "2", "1", "6", "0">>

Res2160x3840 == <<"2", "1", "6", "0", "x", "3", "8", "4", "0">>

Res12x720 == <<"1", "2", "x", "7", "2", "0">>

Res000x720 == <<"0", "0", "0", "x", "7", "2", "0">>

\* 2024-05-10 00:00:30.000, one second of DiffTime markers
ClipA == Video(Some(Sidecar(Some(Stamp(2024, 5, 10, 0, 0, 30, 0)), <<500, 500>>, <<>>)),
               ResStr(Res1920x1080))

\* earlier on the same day, FrameCnt markers only
ClipB == Video(Some(Sidecar(Some(Stamp(2024, 5, 10, 0, 0, 10, 0)), <<>>, <<1, 2>>)),
               ResStr(Res3840x2160))

\* past midnight: the next day
ClipC == Video(Some(Sidecar(Some(Stamp(2024, 5, 11, 0, 0, 10, 0)), <<>>, <<>>)),
               ResStr(Res1920x1080))

\* the same month and day a century earlier
ClipD == Video(Some(Sidecar(Some(Stamp(1924, 5, 10, 0, 0, 20, 0)), <<>>, <<>>)),
               ResStr(Res1920x1080))

\* a sidecar whose first stamp-shaped text is 2024-13-01 25:00:00.000
ClipX == Video(Some(Sidecar(Some(Stamp(2024, 13, 1, 25, 0, 0, 0)), <<>>, <<>>)),
               ResStr(Res1920x1080))

\* a sidecar without a stamp
ClipM == Video(Some(Sidecar(None, <<33>>, <<>>)), ResStr(Res1920x1080))

\* a video without a sidecar
ClipN == Video(None, ResStr(Res1920x1080))

TimedClips == {ClipA, ClipB, ClipC, ClipD, ClipX, ClipM, ClipN}

\* clips of one moment that differ in the resolution the host reports
ResClip(res) ==
    Video(Some(Sidecar(Some(Stamp(2024, 5, 10, 0, 0, 30, 0)), <<>>, <<>>)), res)

ResClips == {ResClip(ResStr(Res1920x1080)), ResClip(ResStr(Res3840x2160)),
             ResClip(ResDict(Res2160x3840)),
             ResClip(ResStr(Res12x720)), ResClip(ResStr(Res000x720)),
             ResClip([kind |-> "other", s |-> <<>>]),
             ResClip([kind |-> "raise", s |-> <<>>])}

Cam_1 == <<"C", "A", "M", "_", "1">>

Cam_2 == <<"C", "A", "M", "_", "2">>

CamColon1 == <<"C", "A", "M", ":", "1">>

\* date_folder.name
DateFolderName == <<"D">>

\* the values of --frame_rate
FrameRates == {0, 30}

VideoSeqs(kinds) == UNION {[1..k -> kinds] : k \in 0..MaxClips}

\* the chosen camera folders: nothing chosen, or the folders named by one of
\* nameSeqs, holding at most MaxClips videos of kinds between them
Layouts(nameSeqs, kinds) ==
    {<<>>}
    \cup {<<[name |-> ns[1], videos |-> v]>> :
             ns \in {n \in nameSeqs : Len(n) = 1}, v \in VideoSeqs(kinds)}
    \cup {<<[name |-> p[1][1], videos |-> p[2]], [name |-> p[1][2], videos |-> p[3]]>> :
             p \in {q \in {n \in nameSeqs : Len(n) = 2}
                          \X VideoSeqs(kinds) \X VideoSeqs(kinds) :
                        Len(q[2]) + Len(q[3]) <= MaxClips}}

\* f"{date_folder.name}_{cam_id}_{realdate}"
timeline_name(cam_id, key) == DateFolderName \o <<"_">> \o cam_id \o <<"_">> \o key

\* the host project: none open, a fresh one, or one that already holds the
\* bins and timelines of an earlier run over the same folders
DayKeys(kinds) ==
    {realdate(v.srt[1].stamp[1]) :
        v \in {k \in kinds : k.srt # None /\ k.srt[1].stamp # None
                             /\ StrptimeAccepts(k.srt[1].stamp[1])}}

HostStates(nameSeqs, kinds) ==
    LET names == UNION {{ns[i] : i \in 1..Len(ns)} : ns \in nameSeqs} IN
    { [project_open |-> FALSE, bins |-> {}, timelines |-> {}],
      [project_open |-> TRUE, bins |-> {}, timelines |-> {}],
      [project_open |-> TRUE,
       bins |-> {<<n>> : n \in names}
                \cup {<<n, k>> : n \in names, k \in DayKeys(kinds)},
       timelines |-> {timeline_name(n, k) : n \in names, k \in DayKeys(kinds)}] }

\* Every sidecar of the catalogue, every stamp strptime accepts, and every
\* frame rate main lets through
AllClips == TimedClips \cup ResClips

KnownSidecars == {v.srt[1] : v \in {k \in AllClips : k.srt # None}}

KnownStamps == {c.stamp[1] : c \in {k \in KnownSidecars :
                                       k.stamp # None /\ StrptimeAccepts(k.stamp[1])}}

PositiveRates == {f \in FrameRates : f > 0}

\* compute_record_frame and get_clip_duration_frames over the catalogue: the
\* values main computes at lines 279 and 280, evaluated once
record_frames == [ts \in KnownStamps, fps \in PositiveRates |->
                     compute_record_frame(ts, fps)]

durations == [srt \in KnownSidecars, fps \in PositiveRates |->
                 get_clip_duration_frames(srt, fps)]

\* one placement entry, lines 279-289
clip_info(item, fps) ==
    placement_entry(item.v, record_frames[item.ts, fps], durations[item.srt, fps])

(***************************************************************************)
(* main().  pc is the place in main: "start", then per camera "cam", per   *)
(* day group "date_bin", "import" (once per clip), "timeline", "append"    *)
(* (once per placement entry), then "export" (once per timeline), "done".  *)
(* "aborted" is the return after a fatal configuration message, "returned" *)
(* the return when no camera is chosen, "crashed" an uncaught exception.   *)
(* calls lists the calls made on the host sink that change it, log the     *)
(* lines printed, export_created whether mkdir created the output folder,  *)
(* files the XML files in it with the timeline each was exported from.     *)
(***************************************************************************)
Msg(kind, unit) == [kind |-> kind, unit |-> unit]

Call(op, unit, arg, ok) == [op |-> op, unit |-> unit, arg |-> arg, ok |-> ok]

InitWith(nameSeqs, kinds) ==
    /\ pc = "start"
    /\ args \in [path_ok : BOOLEAN, frame_rate : FrameRates, output_exists : BOOLEAN]
    /\ chosen_cams \in Layouts(nameSeqs, kinds)
    /\ host \in HostStates(nameSeqs, kinds)
    /\ export_created = FALSE
    /\ files = {}
    /\ calls = <<>>
    /\ log = <<>>
    /\ camIdx = 0
    /\ groups = <<>>
    /\ groupIdx = 0
    /\ itemIdx = 0
    /\ imported_items = <<>>
    /\ clip_infos = <<>>
    /\ all_timelines = <<>>
    /\ exportIdx = 0
    /\ failures = 0
    /\ fn_in = <<>>
    /\ fn_out = <<>>

\* lines 170-217: the checks of the configuration, in the order main makes them
Start ==
    /\ pc = "start"
    /\ IF ~args.path_ok
       THEN /\ pc' = "aborted"
            /\ log' = Append(log, Msg("no_date_folder", <<>>))
            /\ UNCHANGED <<export_created, calls, camIdx>>
       ELSE /\ export_created' = ~args.output_exists
            /\ IF args.frame_rate <= 0
               THEN /\ pc' = "aborted"
                    /\ log' = Append(log, Msg("bad_frame_rate", <<>>))
                    /\ UNCHANGED <<calls, camIdx>>
               ELSE IF chosen_cams = <<>>
               THEN /\ pc' = "returned"
                    /\ log' = Append(log, Msg("no_camera", <<>>))
                    /\ UNCHANGED <<calls, camIdx>>
               ELSE IF ~host.project_open
               THEN /\ pc' = "aborted"
                    /\ log' = Append(log, Msg("no_project", <<>>))
                    /\ UNCHANGED <<calls, camIdx>>
               ELSE /\ pc' = "cam"
                    /\ camIdx' = 1
                    /\ calls' = Append(calls, Call("SetSetting", <<>>,
                                    <<"timelineFrameRate", IntToChars(args.frame_rate)>>, TRUE))
                    /\ UNCHANGED log
    /\ UNCHANGED <<args, host, chosen_cams, files, groups, groupIdx, itemIdx,
                   imported_items, clip_infos, all_timelines, exportIdx, failures,
                   fn_in, fn_out>>

\* ensure_bin(media_pool, parent, name) for the bin at path: a bin found
\* under the parent is returned without a call that changes the host;
\* otherwise AddSubFolder's answer decides
ensure_bin_calls(parent, path, created) ==
    IF path \in host.bins THEN <<>>
    ELSE <<Call("SetCurrentFolder", parent, <<>>, TRUE),
           Call("AddSubFolder", path, <<>>, created)>>

\* group_by_date.setdefault(key, []).append(item)
setdefault_append(grp, key, item) ==
    IF \E i \in 1..Len(grp) : grp[i].key = key
    THEN [i \in 1..Len(grp) |->
             IF grp[i].key = key
             THEN [grp[i] EXCEPT !.items = Append(@, item)] ELSE grp[i]]
    ELSE Append(grp, [key |-> key, items |-> <<item>>])

\* lines 228-238 from video i of camera c on; raised: strptime raised
RECURSIVE group_videos(_, _, _, _)
group_videos(c, videos, i, acc) ==
    IF i > Len(videos) THEN acc
    ELSE LET v == <<c, i>> IN
         IF videos[i].srt = None
         THEN group_videos(c, videos, i + 1,
                  [acc EXCEPT !.log = Append(@, Msg("skip_no_srt", v))])
         ELSE LET r == parse_srt_for_timestamp(videos[i].srt[1]) IN
              IF r.kind = "raise" THEN [acc EXCEPT !.raised = TRUE]
              ELSE IF r.kind = "none"
              THEN group_videos(c, videos, i + 1,
                       [acc EXCEPT !.log = Append(@, Msg("skip_no_timestamp", v))])
              ELSE group_videos(c, videos, i + 1,
                       [acc EXCEPT !.groups = setdefault_append(@, realdate(r.ts),
                           [v |-> v, srt |-> videos[i].srt[1], ts |-> r.ts,
                            res |-> videos[i].res])])

\* sorted(group_by_date.items())
RECURSIVE InsertByKey(_, _)
InsertByKey(sorted, g) ==
    IF sorted = <<>> THEN <<g>>
    ELSE IF StrLess(sorted[Len(sorted)].key, g.key) THEN Append(sorted, g)
    ELSE Append(InsertByKey(SubSeq(sorted, 1, Len(sorted) - 1), g), sorted[Len(sorted)])

RECURSIVE sorted_groups(_)
sorted_groups(grp) ==
    IF grp = <<>> THEN <<>>
    ELSE InsertByKey(sorted_groups(SubSeq(grp, 1, Len(grp) - 1)), grp[Len(grp)])

\* where main goes after the last day group of the camera at camIdx
AfterCamera(timelines) ==
    IF camIdx < Len(chosen_cams)
    THEN [pc |-> "cam", camIdx |-> camIdx + 1, exportIdx |-> 0]
    ELSE IF timelines = <<>>
    THEN [pc |-> "done", camIdx |-> camIdx, exportIdx |-> 0]
    ELSE [pc |-> "export", camIdx |-> camIdx, exportIdx |-> 1]

\* lines 220-238: the camera's bin, then its videos grouped by day
CamStep ==
    /\ pc = "cam"
    /\ \E created \in BOOLEAN :
        LET cam      == chosen_cams[camIdx]
            path     == <<cam.name>>
            scan     == group_videos(camIdx, cam.videos, 1,
                                     [log |-> <<>>, groups |-> <<>>, raised |-> FALSE])
            next     == AfterCamera(all_timelines)
        IN /\ path \in host.bins => created
           /\ ~created => failures < MaxFailures
           /\ calls' = calls \o ensure_bin_calls(<<>>, path, created)
           /\ IF ~created
              THEN /\ log' = Append(log, Msg("cam_bin_failed", path))
                   /\ failures' = failures + 1
                   /\ pc' = next.pc /\ camIdx' = next.camIdx /\ exportIdx' = next.exportIdx
                   /\ UNCHANGED <<host, groups, groupIdx>>
              ELSE /\ host' = [host EXCEPT !.bins = @ \cup {path}]
                   /\ log' = log \o scan.log
                   /\ UNCHANGED failures
                   /\ IF scan.raised
                      THEN /\ pc' = "crashed"
                           /\ UNCHANGED <<camIdx, exportIdx, groups, groupIdx>>
                      ELSE IF scan.groups = <<>>
                      THEN /\ pc' = next.pc /\ camIdx' = next.camIdx
                           /\ exportIdx' = next.exportIdx
                           /\ UNCHANGED <<groups, groupIdx>>
                      ELSE /\ pc' = "date_bin"
                           /\ groups' = sorted_groups(scan.groups)
                           /\ groupIdx' = 1
                           /\ UNCHANGED <<camIdx, exportIdx>>
    /\ UNCHANGED <<args, chosen_cams, export_created, files, itemIdx, imported_items,
                   clip_infos, all_timelines, fn_in, fn_out>>

\* the end of one day group (an iteration of the loop of line 240): on to the
\* camera's next group, or past its last one
LeaveGroup(timelines) ==
    /\ IF groupIdx < Len(groups)
       THEN /\ pc' = "date_bin"
            /\ groupIdx' = groupIdx + 1
            /\ UNCHANGED <<camIdx, exportIdx, groups>>
       ELSE LET next == AfterCamera(timelines)
            IN /\ pc' = next.pc /\ camIdx' = next.camIdx /\ exportIdx' = next.exportIdx
               /\ groups' = <<>>
               /\ groupIdx' = 0
    /\ itemIdx' = 0
    /\ imported_items' = <<>>
    /\ clip_infos' = <<>>

\* lines 241-246: the day's bin under the camera's bin
DateBinStep ==
    /\ pc = "date_bin"
    /\ \E created \in BOOLEAN :
        LET cam_id == chosen_cams[camIdx].name
            path   == <<cam_id, groups[groupIdx].key>>
        IN /\ path \in host.bins => created
           /\ ~created => failures < MaxFailures
           /\ calls' = calls \o ensure_bin_calls(<<cam_id>>, path, created)
                             \o <<Call("SetCurrentFolder",
                                       IF created THEN path ELSE None, <<>>, TRUE)>>
           /\ IF ~created
              THEN /\ log' = Append(log, Msg("date_bin_failed", path))
                   /\ failures' = failures + 1
                   /\ LeaveGroup(all_timelines)
                   /\ UNCHANGED host
              ELSE /\ host' = [host EXCEPT !.bins = @ \cup {path}]
                   /\ pc' = "import"
                   /\ itemIdx' = 1
                   /\ imported_items' = <<>>
                   /\ UNCHANGED <<log, failures, camIdx, exportIdx, groups, groupIdx,
                                  clip_infos>>
    /\ UNCHANGED <<args, chosen_cams, export_created, files, all_timelines, fn_in, fn_out>>

\* lines 247-250: one pass of the import loop
ImportStep ==
    /\ pc = "import"
    /\ \E ok \in BOOLEAN :
        LET items == groups[groupIdx].items
            item  == items[itemIdx]
        IN /\ ~ok => failures < MaxFailures
           /\ calls' = Append(calls, Call("ImportMedia", item.v, <<>>, ok))
           /\ imported_items' = IF ok THEN Append(imported_items, item) ELSE imported_items
           /\ failures' = IF ok THEN failures ELSE failures + 1
           /\ IF itemIdx < Len(items)
              THEN itemIdx' = itemIdx + 1 /\ pc' = "import"
              ELSE itemIdx' = 0 /\ pc' = "timeline"
    /\ UNCHANGED <<args, host, chosen_cams, export_created, files, log, camIdx, groups,
                   groupIdx, clip_infos, all_timelines, exportIdx, fn_in, fn_out>>

\* lines 258-289: the placement entries of the imported items, in their order
clip_infos_of(items, fps) == [i \in 1..Len(items) |-> clip_info(items[i], fps)]

\* lines 251-297: the timeline (get_or_create_timeline reuses one of the same
\* name), its settings, the placement plan and its sort
TimelineStep ==
    /\ pc = "timeline"
    /\ \E made \in BOOLEAN :
        LET name     == timeline_name(chosen_cams[camIdx].name, groups[groupIdx].key)
            fps      == args.frame_rate
            best     == max_resolution(imported_items, <<0, 0>>)
            override == best[1] > 0 /\ best[2] > 0
            sorted   == sort_by_record_frame(clip_infos_of(imported_items, fps))
            tls      == Append(all_timelines, name)
        IN /\ name \in host.timelines => made
           /\ ~made => failures < MaxFailures
           /\ IF ~made
              THEN /\ calls' = Append(calls, Call("CreateEmptyTimeline", name, <<>>, FALSE))
                   /\ log' = Append(log, Msg("timeline_failed", name))
                   /\ failures' = failures + 1
                   /\ LeaveGroup(all_timelines)
                   /\ UNCHANGED <<host, all_timelines>>
              ELSE /\ calls' = calls
                         \o (IF name \in host.timelines THEN <<>>
                             ELSE <<Call("CreateEmptyTimeline", name, <<>>, TRUE)>>)
                         \o <<Call("SetSetting", name,
                                   <<"timelineFrameRate", IntToChars(fps)>>, TRUE),
                              Call("SetStartTimecode", name, <<"00:00:00:00">>, TRUE)>>
                         \o (IF override
                             THEN <<Call("SetSetting", name, <<"useCustomSettings", <<"1">>>>, TRUE),
                                    Call("SetSetting", name,
                                         <<"timelineResolutionWidth", IntToChars(best[1])>>, TRUE),
                                    Call("SetSetting", name,
                                         <<"timelineResolutionHeight", IntToChars(best[2])>>, TRUE)>>
                             ELSE <<>>)
                   /\ log' = IF override THEN Append(log, Msg("resolution", name)) ELSE log
                   /\ host' = [host EXCEPT !.timelines = @ \cup {name}]
                   /\ UNCHANGED failures
                   /\ IF sorted = <<>>
                      THEN /\ all_timelines' = tls
                           /\ LeaveGroup(tls)
                      ELSE /\ pc' = "append"
                           /\ clip_infos' = sorted
                           /\ itemIdx' = 1
                           /\ imported_items' = <<>>
                           /\ UNCHANGED <<all_timelines, camIdx, exportIdx, groups, groupIdx>>
    /\ UNCHANGED <<args, chosen_cams, export_created, files, fn_in, fn_out>>

\* lines 298-302: one pass of the append loop; after the last, the timeline
\* joins all_timelines
AppendStep ==
    /\ pc = "append"
    /\ \E ok \in BOOLEAN :
        LET name == timeline_name(chosen_cams[camIdx].name, groups[groupIdx].key)
            info == clip_infos[itemIdx]
            tls  == Append(all_timelines, name)
        IN /\ ~ok => failures < MaxFailures
           /\ calls' = Append(calls, Call("AppendToTimeline", name, <<info>>, ok))
           /\ log' = IF ok THEN log
                     ELSE Append(log, Msg("append_failed", info.mediaPoolItem))
           /\ failures' = IF ok THEN failures ELSE failures + 1
           /\ IF itemIdx < Len(clip_infos)
              THEN /\ itemIdx' = itemIdx + 1
                   /\ UNCHANGED <<pc, camIdx, exportIdx, groups, groupIdx, imported_items,
                                  clip_infos, all_timelines>>
              ELSE /\ all_timelines' = tls
                   /\ LeaveGroup(tls)
    /\ UNCHANGED <<args, host, chosen_cams, export_created, files, fn_in, fn_out>>

\* str(export_folder / f"{safe_filename(tl.GetName())}.xml"), below the folder
xml_path(name) == safe_filename(name) \o <<".", "x", "m", "l">>

\* lines 304-318: one pass of the export loop
ExportStep ==
    /\ pc = "export"
    /\ \E ok \in BOOLEAN :
        LET tl == all_timelines[exportIdx]
            p  == xml_path(tl)
        IN /\ ~ok => failures < MaxFailures
           /\ files' = {f \in files : f.path # p}
                       \cup (IF ok THEN {[path |-> p, timeline |-> tl]} ELSE {})
           /\ calls' = calls \o <<Call("SetCurrentTimeline", tl, <<>>, TRUE),
                                  Call("Export", tl, p, ok)>>
           /\ log' = Append(log, Msg(IF ok THEN "exported" ELSE "export_failed", p))
           /\ failures' = IF ok THEN failures ELSE failures + 1
           /\ IF exportIdx < Len(all_timelines)
              THEN exportIdx' = exportIdx + 1 /\ pc' = "export"
              ELSE exportIdx' = 0 /\ pc' = "done"
    /\ UNCHANGED <<args, host, chosen_cams, export_created, camIdx, groups, groupIdx,
                   itemIdx, imported_items, clip_infos, all_timelines, fn_in, fn_out>>

Next == \/ Start
        \/ CamStep
        \/ DateBinStep
        \/ ImportStep
        \/ TimelineStep
        \/ AppendStep
        \/ ExportStep

\* the camera folders chosen in the runs of Spec
MainNames == {<<Cam_1>>, <<Cam_1, Cam_2>>, <<Cam_1, CamColon1>>}

Init == InitWith(MainNames, TimedClips)

Spec == Init /\ [][Next]_vars

\* a command line and a host that pass the checks of lines 174-214, the
\* output folder being there already: the runs that build plans
PassesChecks ==
    args.path_ok /\ args.output_exists /\ args.frame_rate > 0 /\ host.project_open

\* runs over one camera's clips that differ in their moment: the order of
\* the appends
OrderClips == {ClipA, ClipB, ClipC, ClipD, ClipX}

InitOrder == InitWith({<<Cam_1>>}, OrderClips) /\ PassesChecks

SpecOrder == InitOrder /\ [][Next]_vars

\* runs in a fresh project over one camera's clips that differ in the
\* resolution the host reports
InitRes == InitWith({<<Cam_1>>}, ResClips) /\ PassesChecks /\ host.bins = {}

SpecRes == InitRes /\ [][Next]_vars

(***************************************************************************)
(* The two functions of the sidecar parser and the frame aligner on their  *)
(* own: fn_in is the argument list, fn_out the value returned.             *)
(***************************************************************************)
\* the most markers of one kind in a sidecar
MaxMarkers == 2

DiffTimes == {33, 34, 500, 1000}

FrameCnts == {1, 7}

Sidecars == {Sidecar(None, d, f) :
                d \in UNION {[1..k -> DiffTimes] : k \in 0..MaxMarkers},
                f \in UNION {[1..k -> FrameCnts] : k \in 0..MaxMarkers}}

Rates == {24, 25, 30}

\* main holds still while a function is examined
Idle ==
    /\ args = [path_ok |-> TRUE, frame_rate |-> 0, output_exists |-> TRUE]
    /\ host = [project_open |-> FALSE, bins |-> {}, timelines |-> {}]
    /\ chosen_cams = <<>>
    /\ export_created = FALSE
    /\ files = {}
    /\ calls = <<>>
    /\ log = <<>>
    /\ camIdx = 0
    /\ groups = <<>>
    /\ groupIdx = 0
    /\ itemIdx = 0
    /\ imported_items = <<>>
    /\ clip_infos = <<>>
    /\ all_timelines = <<>>
    /\ exportIdx = 0
    /\ failures = 0

main_vars == <<args, host, chosen_cams, export_created, files, calls, log, camIdx,
               groups, groupIdx, itemIdx, imported_items, clip_infos, all_timelines,
               exportIdx, failures>>

InitDur ==
    /\ pc = "duration"
    /\ fn_in \in [srt : Sidecars, fps : Rates]
    /\ fn_out = <<>>
    /\ Idle

\* lines 280-289 for one clip: the duration and the entry main builds from it
duration_and_entry(duration) ==
    [duration |-> duration, info |-> placement_entry(<<1, 1>>, 0, duration)]

DurationStep ==
    /\ pc = "duration"
    /\ pc' = "duration_done"
    /\ fn_out' = duration_and_entry(get_clip_duration_frames(fn_in.srt, fn_in.fps))
    /\ UNCHANGED <<fn_in, main_vars>>

NextDur == DurationStep

SpecDur == InitDur /\ [][NextDur]_vars

Day0510(h, mi, s, ms) == Stamp(2024, 5, 10, h, mi, s, ms)

Day0511(h, mi, s, ms) == Stamp(2024, 5, 11, h, mi, s, ms)

Moments == {Day0510(0, 0, 0, 0), Day0510(0, 0, 0, 60), Day0510(0, 0, 4, 60),
            Day0510(0, 0, 4, 900), Day0510(0, 0, 30, 0), Day0510(23, 59, 59, 500),
            Day0511(0, 0, 0, 0), Day0511(0, 0, 0, 20)}

InitRec ==
    /\ pc = "record_frame"
    /\ fn_in \in [t1 : Moments, t2 : Moments, fps : Rates]
    /\ fn_out = <<>>
    /\ Idle

RecordFrameStep ==
    /\ pc = "record_frame"
    /\ pc' = "record_frame_done"
    /\ fn_out' = <<compute_record_frame(fn_in.t1, fn_in.fps),
                   compute_record_frame(fn_in.t2, fn_in.fps)>>
    /\ UNCHANGED <<fn_in, main_vars>>

NextRec == RecordFrameStep

SpecRec == InitRec /\ [][NextRec]_vars

(***************************************************************************)
(* What the claims speak of, read off the run: the calls made on the host  *)
(* sink, the lines logged, the files written.                              *)
(***************************************************************************)
Range(s) == {s[i] : i \in 1..Len(s)}

IsAppend(c) == c.op = "AppendToTimeline"

\* the video file a clip id stands for
VideoOf(v) == chosen_cams[v[1]].videos[v[2]]

HasDate(video) ==
    /\ video.srt # None
    /\ video.srt[1].stamp # None
    /\ StrptimeAccepts(video.srt[1].stamp[1])

\* the name of the plan a dated clip belongs to
PlanOf(v) == timeline_name(chosen_cams[v[1]].name, realdate(VideoOf(v).srt[1].stamp[1]))

\* the clips of a plan whose import succeeded, in the order of the imports
ImportedInto(name) ==
    LET imports == SelectSeq(calls, LAMBDA c : c.op = "ImportMedia" /\ c.ok
                                               /\ PlanOf(c.unit) = name)
    IN [i \in 1..Len(imports) |-> imports[i].unit]

AppendsTo(name) == SelectSeq(calls, LAMBDA c : IsAppend(c) /\ c.unit = name)

SameCalendarDate(t1, t2) == t1.Y = t2.Y /\ t1.M = t2.M /\ t1.D = t2.D

\* C1: within each plan the entries reach AppendToTimeline one per call, in
\* ascending order of recordFrame, entries of equal recordFrame in the order
\* their clips were discovered, and every imported clip of a finished plan is
\* among them, whichever appends failed.
C1_AppendsAscendingAndStable ==
    /\ \A i, j \in 1..Len(calls) :
          (i < j /\ IsAppend(calls[i]) /\ IsAppend(calls[j])
                 /\ calls[i].unit = calls[j].unit)
          => /\ Len(calls[i].arg) = 1
             /\ Len(calls[j].arg) = 1
             /\ calls[i].arg[1].recordFrame <= calls[j].arg[1].recordFrame
             /\ calls[i].arg[1].recordFrame = calls[j].arg[1].recordFrame
                => calls[i].arg[1].mediaPoolItem[2] < calls[j].arg[1].mediaPoolItem[2]
    /\ \A name \in Range(all_timelines) :
          Range(ImportedInto(name))
              = {c.arg[1].mediaPoolItem : c \in Range(AppendsTo(name))}

\* C1 witness: a finished run in which a plan's first append failed and was
\* followed by two entries of equal recordFrame, the failed entry being of a
\* clip discovered after them.
C1_FailedAppendThenTie ==
    /\ pc = "done"
    /\ \E i, j, k \in 1..Len(calls) :
          /\ i < j /\ j < k
          /\ IsAppend(calls[i]) /\ IsAppend(calls[j]) /\ IsAppend(calls[k])
          /\ calls[i].unit = calls[j].unit /\ calls[j].unit = calls[k].unit
          /\ ~calls[i].ok
          /\ calls[j].arg[1].recordFrame = calls[k].arg[1].recordFrame
          /\ calls[i].arg[1].mediaPoolItem[2] > calls[j].arg[1].mediaPoolItem[2]

\* C2: the clips of one day group all carry the same full calendar date
\* (year, month and day) in their sidecar timestamp.
C2_GroupHasOneCalendarDate ==
    \A g \in 1..Len(groups) :
        \A a, b \in 1..Len(groups[g].items) :
            SameCalendarDate(groups[g].items[a].ts, groups[g].items[b].ts)

\* C3: parse_srt_for_timestamp raises for no sidecar text, so main never
\* ends on an exception, and at the end of a run every clip of a scanned
\* camera whose sidecar yields no timestamp has been reported as skipped.
C3_ParseNeverRaises ==
    /\ pc # "crashed"
    /\ pc = "done"
       => \A c \in 1..Len(chosen_cams) : \A i \in 1..Len(chosen_cams[c].videos) :
             (/\ chosen_cams[c].videos[i].srt # None
              /\ ~HasDate(chosen_cams[c].videos[i])
              /\ \A k \in 1..Len(log) : log[k].kind # "cam_bin_failed"
                                        \/ log[k].unit # <<chosen_cams[c].name>>)
             => \E k \in 1..Len(log) : /\ log[k].kind = "skip_no_timestamp"
                                       /\ log[k].unit = <<c, i>>

\* C4: when main stops on a fatal configuration condition, nothing has been
\* created or deleted on the filesystem, the output folder included, and no
\* call that changes the host has been made.
C4_AbortWithoutSideEffect ==
    pc = "aborted" => (~export_created /\ files = {} /\ calls = <<>>)

\* a line of the log about the unit a failed call worked on
FailureLogged(c) ==
    IF c.op = "AddSubFolder"
    THEN \E k \in 1..Len(log) : /\ log[k].kind \in {"cam_bin_failed", "date_bin_failed"}
                                /\ log[k].unit = c.unit
    ELSE IF c.op = "CreateEmptyTimeline"
    THEN \E k \in 1..Len(log) : log[k].kind = "timeline_failed" /\ log[k].unit = c.unit
    ELSE IF c.op = "ImportMedia"
    THEN \E k \in 1..Len(log) :
            /\ log[k].kind \in {"skip_no_srt", "skip_no_timestamp", "append_failed"}
            /\ log[k].unit = c.unit
    ELSE IF c.op = "AppendToTimeline"
    THEN \E k \in 1..Len(log) : /\ log[k].kind = "append_failed"
                                /\ log[k].unit = c.arg[1].mediaPoolItem
    ELSE IF c.op = "Export"
    THEN \E k \in 1..Len(log) : log[k].kind = "export_failed" /\ log[k].unit = c.arg
    ELSE FALSE

\* C5: every call on the host sink that returned a failure or an empty
\* result has a line in the log about the unit it worked on: the folder, the
\* timeline, the clip imported or appended, the file exported.
C5_EveryFailureLogged ==
    \A i \in 1..Len(calls) : ~calls[i].ok => FailureLogged(calls[i])

NoFolderOrTimelineFailure ==
    \A k \in 1..Len(log) :
        log[k].kind \notin {"cam_bin_failed", "date_bin_failed", "timeline_failed"}

\* C6: when a run in which only imports, appends and exports failed has
\* ended, it has reached the last chosen camera, built the plan of every
\* dated clip, attempted one append per imported clip and exactly one export
\* per plan; and no export precedes a call that builds a plan.
C6_RunReachesEveryPlan ==
    /\ (pc \in {"done", "crashed"} /\ NoFolderOrTimelineFailure)
       => /\ camIdx = Len(chosen_cams)
          /\ \A c \in 1..Len(chosen_cams) : \A i \in 1..Len(chosen_cams[c].videos) :
                HasDate(chosen_cams[c].videos[i])
                => PlanOf(<<c, i>>) \in Range(all_timelines)
          /\ \A name \in Range(all_timelines) :
                /\ Len(AppendsTo(name)) = Len(ImportedInto(name))
                /\ Cardinality({k \in 1..Len(calls) :
                       calls[k].op = "Export" /\ calls[k].unit = name}) = 1
    /\ \A i, j \in 1..Len(calls) :
          (i < j /\ calls[i].op = "Export")
          => calls[j].op \in {"SetCurrentTimeline", "Export"}

\* C7: a sidecar with DiffTime markers yields floor(sum * fps / 1000),
\* FrameCnt markers or not; one with FrameCnt markers only yields their
\* number; one with neither yields nothing; and the placement entry has the
\* trim window 0..duration exactly when there is a duration.
C7_DurationIsFloorOfFrames ==
    pc = "duration_done"
    => /\ fn_out.duration =
             (IF fn_in.srt.diff # <<>>
              THEN Some((SumSeq(fn_in.srt.diff) * fn_in.fps) \div 1000)
              ELSE IF fn_in.srt.framecnt # <<>> THEN Some(Len(fn_in.srt.framecnt))
              ELSE None)
       /\ IF fn_out.duration = None
          THEN DOMAIN fn_out.info = {"mediaPoolItem", "trackIndex", "recordFrame"}
          ELSE /\ DOMAIN fn_out.info = {"mediaPoolItem", "trackIndex", "recordFrame",
                                        "startFrame", "endFrame"}
               /\ fn_out.info.startFrame = 0
               /\ fn_out.info.endFrame = fn_out.duration[1]

\* ms * fps / 1000 for the milliseconds since midnight of ts: the whole
\* frames and the thousandths of a frame left over
WholeFrames(ts, fps) ==
    (MsOfDay(ts) \div 1000) * fps + ((MsOfDay(ts) % 1000) * fps) \div 1000

FrameThousandths(ts, fps) == ((MsOfDay(ts) % 1000) * fps) % 1000

TieRules == {"half_even", "half_up", "half_down"}

\* round(ms * fps / 1000) under one rule for exact half frames
Rounded(ts, fps, rule) ==
    IF FrameThousandths(ts, fps) < 500 THEN WholeFrames(ts, fps)
    ELSE IF FrameThousandths(ts, fps) > 500 THEN WholeFrames(ts, fps) + 1
    ELSE IF rule = "half_up" THEN WholeFrames(ts, fps) + 1
    ELSE IF rule = "half_down" THEN WholeFrames(ts, fps)
    ELSE WholeFrames(ts, fps) + (WholeFrames(ts, fps) % 2)

\* C8: compute_record_frame gives the non-negative integer
\* round(milliseconds since midnight * fps / 1000) under one rule for exact
\* half frames, the same for every timestamp; it does not decrease as the
\* timestamp grows within a day, is 0 at midnight of any day, and is 900 for
\* 00:00:30.000 at 30 frames per second.
C8_RoundedWithOneTieRule ==
    pc = "record_frame_done"
    => /\ \E rule \in TieRules :
             /\ fn_out[1] = Rounded(fn_in.t1, fn_in.fps, rule)
             /\ fn_out[2] = Rounded(fn_in.t2, fn_in.fps, rule)
       /\ fn_out[1] >= 0 /\ fn_out[2] >= 0
       /\ (SameCalendarDate(fn_in.t1, fn_in.t2) /\ MsOfDay(fn_in.t1) <= MsOfDay(fn_in.t2))
          => fn_out[1] <= fn_out[2]
       /\ MsOfDay(fn_in.t1) = 0 => fn_out[1] = 0
       /\ (MsOfDay(fn_in.t1) = 30000 /\ fn_in.fps = 30) => fn_out[1] = 900

\* what main reads from each 'Resolution' property of the catalogue
parsed_resolutions == [res \in {v.res : v \in AllClips} |-> ClipResolution(res)]

\* the resolution main reads from an imported clip, None when it reads none
ResolutionOf(v) == parsed_resolutions[VideoOf(v).res]

Area(wh) == wh[1] * wh[2]

\* the clips of seq with a parsable resolution; with positive, only those
\* whose width and height are both above zero
Parsable(seq, positive) ==
    {i \in 1..Len(seq) :
        /\ ResolutionOf(seq[i]) # None
        /\ positive => (ResolutionOf(seq[i])[1] > 0 /\ ResolutionOf(seq[i])[2] > 0)}

\* the first of the clips at cand whose area is the largest among them
FirstLargest(seq, cand) ==
    CHOOSE i \in cand :
        \A j \in cand : /\ Area(ResolutionOf(seq[j])) <= Area(ResolutionOf(seq[i]))
                        /\ Area(ResolutionOf(seq[j])) = Area(ResolutionOf(seq[i])) => i <= j

\* the settings that override a timeline's resolution, as main makes them
OverrideSettings(wh) ==
    << <<"useCustomSettings", <<"1">>>>,
       <<"timelineResolutionWidth", IntToChars(wh[1])>>,
       <<"timelineResolutionHeight", IntToChars(wh[2])>> >>

\* the resolution settings made on the timeline called name
ResolutionSettings(name) ==
    LET made == SelectSeq(calls, LAMBDA c :
                    /\ c.op = "SetSetting"
                    /\ c.arg[1] # "timelineFrameRate"
                    /\ c.unit = name)
    IN [i \in 1..Len(made) |-> made[i].arg]

\* the settings made on name are those the clips of seq at cand call for
TargetAmong(name, seq, cand) ==
    ResolutionSettings(name)
        = (IF cand = {} THEN <<>>
           ELSE OverrideSettings(ResolutionOf(seq[FirstLargest(seq, cand)])))

TargetFrom(name, seq, positive) == TargetAmong(name, seq, Parsable(seq, positive))

TargetApplied(name, positive) == TargetFrom(name, ImportedInto(name), positive)

\* the calls that open the plan of a timeline: one per timeline made or reused
PlanStarts == {k \in 1..Len(calls) : calls[k].op = "SetStartTimecode"}

\* C9 as stated: the resolution applied to a timeline is that of the first
\* imported clip whose area is the largest among the clips with a parsable
\* resolution, and none is applied when no clip has a parsable resolution.
C9_TargetIsFirstLargestParsable ==
    /\ pc # "crashed"
    /\ \A k \in PlanStarts : TargetApplied(calls[k].unit, FALSE)

\* C9, amended: the resolution applied to a timeline is that of the first
\* imported clip whose area is the largest among the clips with a parsable
\* resolution of width and height above zero; clips whose resolution is
\* missing, unparsable or raises are passed over without an error; and no
\* override is applied when no clip has such a resolution.
C9_TargetIsFirstLargestPositive ==
    /\ pc # "crashed"
    /\ \A k \in PlanStarts : TargetApplied(calls[k].unit, TRUE)

\* C9 witness: a finished run with a plan of three imported clips, one
\* without a parsable resolution and two of different shape and equal,
\* largest area, the first of which gave the timeline its resolution.
C9_TieOfLargestAreas ==
    /\ pc = "done"
    /\ \E name \in {calls[k].unit : k \in PlanStarts} :
          /\ \E m \in 1..Len(ImportedInto(name)) :
                ResolutionOf(ImportedInto(name)[m]) = None
          /\ \E i, j \in Parsable(ImportedInto(name), TRUE) :
                /\ i < j
                /\ i = FirstLargest(ImportedInto(name), Parsable(ImportedInto(name), TRUE))
                /\ Area(ResolutionOf(ImportedInto(name)[i]))
                       = Area(ResolutionOf(ImportedInto(name)[j]))
                /\ ResolutionOf(ImportedInto(name)[i]) # ResolutionOf(ImportedInto(name)[j])
                /\ ResolutionSettings(name)
                       = OverrideSettings(ResolutionOf(ImportedInto(name)[i]))

\* C10: after a run whose exports all succeeded, the output folder holds for
\* every plan the file safe_filename(plan name) + ".xml" exported from that
\* plan's timeline, and no two plans of the run have the same output path.
C10_OneFilePerPlan ==
    (pc = "done" /\ \A k \in 1..Len(log) : log[k].kind # "export_failed")
    => \A i \in 1..Len(all_timelines) :
          /\ [path |-> xml_path(all_timelines[i]), timeline |-> all_timelines[i]] \in files
          /\ \A j \in 1..Len(all_timelines) :
                all_timelines[i] # all_timelines[j]
                => xml_path(all_timelines[i]) # xml_path(all_timelines[j])
====
